---- MODULE Spec2Model ----
(***************************************************************************)
(* elfsmith: the class- and endianness-polymorphic ELF header codec, the   *)
(* byte-range Blob, and the whole-file loaders, as a state machine over a  *)
(* seekable byte stream.                                                   *)
(*                                                                         *)
(* Integers.  TLC's integers are 32 bits wide, the program's are up to 64. *)
(* A uN value is held as its base-2^16 limbs, least significant limb       *)
(* first: a u16 is <<l0>>, a u32 is <<l0, l1>>, a u64 is <<l0, l1, l2,     *)
(* l3>>.  A u8 is a number in 0..255.  Byte conversions are computed from  *)
(* the limbs (division and remainder by 256, byte order by endianness).    *)
(*                                                                         *)
(* Streams.  A stream is a sequence of bytes and a cursor (0-based, it may *)
(* lie beyond the end, as std::io::Seek allows).                           *)
(***************************************************************************)
EXTENDS Integers, Sequences, FiniteSets, TLC

VARIABLES
    data,      \* the bytes of the stream r / w
    pos,       \* the stream's seek cursor
    result,    \* the value the last ELFFile::load / load_fully returned
    rec,       \* CodecSpec: the value handed to the encoder under test
    last       \* the last operation: its name, the cursor before it, its outcome

vars == <<data, pos, result, rec, last>>

\* ------------------------------------------------------------------ bounds

\* The largest number of segment entries a generated stream declares.
MaxSegments == 1

\* The largest number of section entries a generated stream declares.
MaxSections == 2

\* ------------------------------------------------------------- arithmetic

Max(a, b) == IF a >= b THEN a ELSE b

Min(a, b) == IF a <= b THEN a ELSE b

Reverse(s) == [i \in 1..Len(s) |-> s[Len(s) + 1 - i]]

Zeros(n) == [i \in 1..n |-> 0]

\* A small number as a u16 / u32 / u64 value (limbs, least significant first).
U16(n) == <<n>>

U32(n) == <<n % 65536, n \div 65536>>

U64(n) == <<n % 65536, n \div 65536, 0, 0>>

\* `self as u32` of a u64: the low 32 bits.
AsU32(v) == SubSeq(v, 1, 2)

\* `x as u64` of a u32: zero extension.
AsU64(v) == v \o <<0, 0>>

\* A u64 used as a stream offset or a length (`as usize`).  Offsets of 2^30
\* and more all lie beyond every stream of the model and are held as 2^30.
ToPos(v) ==
    IF Len(v) = 4 /\ (v[3] # 0 \/ v[4] # 0) THEN 1073741824
    ELSE IF Len(v) >= 2 /\ v[2] >= 16384 THEN 1073741824
    ELSE IF Len(v) >= 2 THEN v[1] + 65536 * v[2]
    ELSE v[1]

\* ------------------------------------------------------- primitive codec

\* uN::to_le_bytes
to_le_bytes(v) ==
    [i \in 1..(2 * Len(v)) |->
        IF i % 2 = 1 THEN v[(i + 1) \div 2] % 256 ELSE v[i \div 2] \div 256]

\* uN::to_be_bytes
to_be_bytes(v) == Reverse(to_le_bytes(v))

\* uN::from_le_bytes
from_le_bytes(b) == [j \in 1..(Len(b) \div 2) |-> b[2 * j - 1] + 256 * b[2 * j]]

\* uN::from_be_bytes
from_be_bytes(b) == from_le_bytes(Reverse(b))

\* The errors of UnpackError.
IOError == [kind |-> "IO"]

InvalidMagic(expected, got) ==
    [kind |-> "InvalidMagic", expected |-> expected, got |-> got]

InvalidEnumVariant(name, variant) ==
    [kind |-> "InvalidEnumVariant", name |-> name, variant |-> variant]

\* A decoder's outcome: the value and the cursor after it, or the error and
\* the cursor at which the failing read began.
Ok(v, p) == [ok |-> TRUE, val |-> v, pos |-> p]

Err(e, p) == [ok |-> FALSE, err |-> e, pos |-> p]

\* The `?` operator: an error ends the function with that error, a success
\* continues with the value.
Try(r, Then(_)) == IF r.ok THEN Then(r) ELSE r

\* A read_exact that would fill what the stream lacks with zeros; the
\* short-read property must tell it from the code's.
read_exact_zero_fill(d, p, n) ==
    Ok([i \in 1..n |-> IF p + i <= Len(d) THEN d[p + i] ELSE 0], p + n)

\* Read::read_exact of n bytes from stream d at cursor p.
read_exact(d, p, n) ==
    IF p + n <= Len(d) THEN Ok(SubSeq(d, p + 1, p + n), p + n)
    ELSE Err(IOError, p)

\* Write::write_all of bytes b to a growable stream d at cursor p
\* (Cursor<Vec<u8>>: a gap before p is zero-filled, bytes at p.. overwritten).
write_all(d, p, b) ==
    [i \in 1..Max(Len(d), p + Len(b)) |->
        IF i > p /\ i <= p + Len(b) THEN b[i - p]
        ELSE IF i <= Len(d) THEN d[i]
        ELSE 0]

\* impl_packable!: pack of a u16 / u32 / u64, the bytes written.
IntPack(v, big_endian) ==
    IF big_endian THEN to_be_bytes(v) ELSE to_le_bytes(v)

\* impl_packable!: unpack of an n-byte integer (n = 2, 4, 8).
IntUnpack(d, p, n, big_endian) ==
    Try(read_exact(d, p, n), LAMBDA r :
        IF big_endian THEN Ok(from_be_bytes(r.val), r.pos)
        ELSE Ok(from_le_bytes(r.val), r.pos))

\* impl_packable!(u8): pack and unpack of a single byte.
U8Pack(v) == <<v>>

U8Unpack(d, p) ==
    Try(read_exact(d, p, 1), LAMBDA r : Ok(r.val[1], r.pos))

\* ----------------------------------------------------- class-width codec

\* A pack_class that would ignore the class and always write the full
\* 8 bytes; the class-width properties must tell it from the code's.
U64PackClassWide(v, big_endian, class) == IntPack(v, big_endian)

\* <u64 as PackableClass>::pack_class
U64PackClass(v, big_endian, class) ==
    IF class = "ELF64" THEN IntPack(v, big_endian)
    ELSE IntPack(AsU32(v), big_endian)

\* <u64 as PackableClass>::unpack_class
U64UnpackClass(d, p, big_endian, class) ==
    IF class = "ELF64" THEN IntUnpack(d, p, 8, big_endian)
    ELSE Try(IntUnpack(d, p, 4, big_endian), LAMBDA r :
             Ok(AsU64(r.val), r.pos))

\* ------------------------------------------------- identification record

\* ELF_FILE_MAGIC: 0x7f 'E' 'L' 'F'
ELF_FILE_MAGIC == <<127, 69, 76, 70>>

\* ELF_IDENT_PADDING: [0u8; 7]
ELF_IDENT_PADDING == Zeros(7)

\* `*self as u8` of a Class / an Endianness.
ClassByte(class) == IF class = "ELF32" THEN 1 ELSE 2

EndiannessByte(endianness) == IF endianness = "Little" THEN 1 ELSE 2

\* Class::unpack
ClassUnpack(d, p) ==
    Try(read_exact(d, p, 1), LAMBDA r :
        IF r.val[1] = 1 THEN Ok("ELF32", r.pos)
        ELSE IF r.val[1] = 2 THEN Ok("ELF64", r.pos)
        ELSE Err(InvalidEnumVariant("Class", r.val[1]), r.pos))

\* An Endianness::unpack with the two tags exchanged; the tag properties
\* must tell it from the code's.
EndiannessUnpackSwapped(d, p) ==
    Try(read_exact(d, p, 1), LAMBDA r :
        IF r.val[1] = 1 THEN Ok("Big", r.pos)
        ELSE IF r.val[1] = 2 THEN Ok("Little", r.pos)
        ELSE Err(InvalidEnumVariant("Endianness", r.val[1]), r.pos))

\* Endianness::unpack
EndiannessUnpack(d, p) ==
    Try(read_exact(d, p, 1), LAMBDA r :
        IF r.val[1] = 1 THEN Ok("Little", r.pos)
        ELSE IF r.val[1] = 2 THEN Ok("Big", r.pos)
        ELSE Err(InvalidEnumVariant("Endianness", r.val[1]), r.pos))

\* Ident::is_big_endian
is_big_endian(ident) == ident.endianness = "Big"

\* An Ident::pack that would leave out the padding; the length property
\* must tell it from the code's.
IdentPackNoPadding(ident) ==
    ident.magic
        \o <<ClassByte(ident.class), EndiannessByte(ident.endianness),
             ident.version, ident.os_abi, ident.abi_version>>

\* Ident::pack
IdentPack(ident) ==
    ident.magic
        \o <<ClassByte(ident.class), EndiannessByte(ident.endianness),
             ident.version, ident.os_abi, ident.abi_version>>
        \o ELF_IDENT_PADDING

\* An Ident::unpack that would decode the class tag before comparing the
\* magic; the magic gate must tell it from the code's.
IdentUnpackClassFirst(d, p) ==
    Try(read_exact(d, p, 4), LAMBDA magic :
    Try(ClassUnpack(d, magic.pos), LAMBDA class :
    IF magic.val # ELF_FILE_MAGIC
    THEN Err(InvalidMagic(ELF_FILE_MAGIC, magic.val), magic.pos)
    ELSE
    Try(EndiannessUnpack(d, class.pos), LAMBDA endianness :
    Try(U8Unpack(d, endianness.pos), LAMBDA version :
    Try(U8Unpack(d, version.pos), LAMBDA os_abi :
    Try(U8Unpack(d, os_abi.pos), LAMBDA abi_version :
    Try(read_exact(d, abi_version.pos, 7), LAMBDA padding :
        Ok([magic |-> magic.val, class |-> class.val,
            endianness |-> endianness.val, version |-> version.val,
            os_abi |-> os_abi.val, abi_version |-> abi_version.val],
           padding.pos))))))))

\* Ident::unpack
IdentUnpack(d, p) ==
    Try(read_exact(d, p, 4), LAMBDA magic :
    IF magic.val # ELF_FILE_MAGIC
    THEN Err(InvalidMagic(ELF_FILE_MAGIC, magic.val), magic.pos)
    ELSE
    Try(ClassUnpack(d, magic.pos), LAMBDA class :
    Try(EndiannessUnpack(d, class.pos), LAMBDA endianness :
    Try(U8Unpack(d, endianness.pos), LAMBDA version :
    Try(U8Unpack(d, version.pos), LAMBDA os_abi :
    Try(U8Unpack(d, os_abi.pos), LAMBDA abi_version :
    Try(read_exact(d, abi_version.pos, 7), LAMBDA padding :
        Ok([magic |-> magic.val, class |-> class.val,
            endianness |-> endianness.val, version |-> version.val,
            os_abi |-> os_abi.val, abi_version |-> abi_version.val],
           padding.pos))))))))

\* ------------------------------------------------------ segment type tag

\* ProgramHeaderType::pack: the u32 written for a variant.
ProgramHeaderTypePack(ty, big_endian) ==
    IntPack(
        CASE ty.tag = "Unused" -> U32(0)
          [] ty.tag = "Loadable" -> U32(1)
          [] ty.tag = "Dynamic" -> U32(2)
          [] ty.tag = "Interpreter" -> U32(3)
          [] ty.tag = "ProgramHeaderTable" -> U32(6)
          [] ty.tag = "Other" -> ty.n,
        big_endian)

\* A ProgramHeaderType::unpack that would refuse the tags it does not
\* know; the tag property must tell it from the code's.
ProgramHeaderTypeUnpackStrict(d, p, big_endian) ==
    Try(IntUnpack(d, p, 4, big_endian), LAMBDA ty :
        IF ty.val \in {U32(0), U32(1), U32(2), U32(3), U32(6)}
        THEN Ok(CASE ty.val = U32(0) -> [tag |-> "Unused"]
                  [] ty.val = U32(1) -> [tag |-> "Loadable"]
                  [] ty.val = U32(2) -> [tag |-> "Dynamic"]
                  [] ty.val = U32(3) -> [tag |-> "Interpreter"]
                  [] ty.val = U32(6) -> [tag |-> "ProgramHeaderTable"],
                ty.pos)
        ELSE Err(InvalidEnumVariant("ProgramHeaderType", ty.val[1]), ty.pos))

\* ProgramHeaderType::unpack
ProgramHeaderTypeUnpack(d, p, big_endian) ==
    Try(IntUnpack(d, p, 4, big_endian), LAMBDA ty :
        Ok(CASE ty.val = U32(0) -> [tag |-> "Unused"]
             [] ty.val = U32(1) -> [tag |-> "Loadable"]
             [] ty.val = U32(2) -> [tag |-> "Dynamic"]
             [] ty.val = U32(3) -> [tag |-> "Interpreter"]
             [] ty.val = U32(6) -> [tag |-> "ProgramHeaderTable"]
             [] OTHER -> [tag |-> "Other", n |-> ty.val],
           ty.pos))

\* --------------------------------------------------- sequences of fields

\* A record codec is a fixed sequence of field codecs, each ended by `?`:
\* the first failing field ends the decode with its error.  A field is a
\* name and the codec used for it: "u16", "u32" (Packable), "class"
\* (PackableClass for u64) or "phtype" (ProgramHeaderType).
Field(name, kind) == [name |-> name, kind |-> kind]

PackField(v, kind, big_endian, class) ==
    CASE kind = "u16" -> IntPack(v, big_endian)
      [] kind = "u32" -> IntPack(v, big_endian)
      [] kind = "class" -> U64PackClass(v, big_endian, class)
      [] kind = "phtype" -> ProgramHeaderTypePack(v, big_endian)

UnpackField(d, p, kind, big_endian, class) ==
    CASE kind = "u16" -> IntUnpack(d, p, 2, big_endian)
      [] kind = "u32" -> IntUnpack(d, p, 4, big_endian)
      [] kind = "class" -> U64UnpackClass(d, p, big_endian, class)
      [] kind = "phtype" -> ProgramHeaderTypeUnpack(d, p, big_endian)

RECURSIVE PackFields(_, _, _, _)
PackFields(r, fields, big_endian, class) ==
    IF fields = <<>> THEN <<>>
    ELSE PackField(r[Head(fields).name], Head(fields).kind, big_endian, class)
            \o PackFields(r, Tail(fields), big_endian, class)

RECURSIVE UnpackFields(_, _, _, _, _, _)
UnpackFields(d, p, fields, big_endian, class, acc) ==
    IF fields = <<>> THEN Ok(acc, p)
    ELSE Try(UnpackField(d, p, Head(fields).kind, big_endian, class),
             LAMBDA r :
             UnpackFields(d, r.pos, Tail(fields), big_endian, class,
                          acc @@ (Head(fields).name :> r.val)))

\* ----------------------------------------------------------------- blob

\* A Blob::load that would read at the cursor instead of seeking to the
\* offset, and one that would not seek back after the read; the blob
\* properties must tell them from the code's.
BlobLoadNoSeek(d, p, offset, size) ==
    LET old_pos == p
    IN  Try(read_exact(d, p, size), LAMBDA res :
            Ok([blob |-> res.val], old_pos))

BlobLoadNoRestore(d, p, offset, size) ==
    Try(read_exact(d, offset, size), LAMBDA res :
        Ok([blob |-> res.val], res.pos))

\* Blob::load: save the cursor, seek, read, seek back.  A failing read
\* returns before the cursor is restored.
BlobLoad(d, p, offset, size) ==
    LET old_pos == p
    IN  Try(read_exact(d, offset, size), LAMBDA res :
            Ok([blob |-> res.val], old_pos))

\* Blob::write to a growable stream: the stream after it and the cursor.
BlobWrite(blob, d, p, offset) ==
    LET old_pos == p
    IN  [data |-> write_all(d, offset, blob.blob), pos |-> old_pos]

\* Option<Blob>
None == [some |-> FALSE]

Some(b) == [some |-> TRUE, val |-> b]

\* -------------------------------------------------------- segment header

\* A segment layout that would keep the flags after the type in both
\* classes; the field-order property must tell it from the code's.
ProgramHeaderFieldsFlagsFirst(class) ==
    <<Field("ty", "phtype"), Field("flags", "u32"),
      Field("offset", "class"), Field("virtual_addr", "class"),
      Field("physical_addr", "class"), Field("file_size", "class"),
      Field("mem_size", "class"), Field("alignment", "class")>>

\* The fields of ProgramHeader::pack_class / unpack_class in the order the
\* code visits them: flags after the type under ELF64, before the
\* alignment under ELF32.
ProgramHeaderFields(class) ==
    <<Field("ty", "phtype")>>
        \o (IF class = "ELF64" THEN <<Field("flags", "u32")>> ELSE <<>>)
        \o <<Field("offset", "class"), Field("virtual_addr", "class"),
             Field("physical_addr", "class"), Field("file_size", "class"),
             Field("mem_size", "class")>>
        \o (IF class = "ELF32" THEN <<Field("flags", "u32")>> ELSE <<>>)
        \o <<Field("alignment", "class")>>

\* ProgramHeader::pack_class
ProgramHeaderPackClass(ph, big_endian, class) ==
    PackFields(ph, ProgramHeaderFields(class), big_endian, class)

\* ProgramHeader::unpack_class: the fixed fields, then Blob::load of
\* [offset, offset + file_size) into `data`.
ProgramHeaderUnpackClass(d, p, big_endian, class) ==
    Try(UnpackFields(d, p, ProgramHeaderFields(class), big_endian, class,
                     <<>>), LAMBDA f :
    Try(BlobLoad(d, f.pos, ToPos(f.val.offset), ToPos(f.val.file_size)),
        LAMBDA data_ :
        Ok(f.val @@ ("data" :> data_.val), data_.pos)))

\* -------------------------------------------------------- section header

\* The fields of SectionHeader::pack_class / unpack_class, one order for
\* both classes.
SectionHeaderFields ==
    <<Field("name", "u32"), Field("ty", "u32"), Field("flags", "class"),
      Field("address", "class"), Field("offset", "class"),
      Field("size", "class"), Field("link", "u32"), Field("info", "u32"),
      Field("addr_align", "class"), Field("entry_size", "class")>>

\* SectionHeader::pack_class
SectionHeaderPackClass(sh, big_endian, class) ==
    PackFields(sh, SectionHeaderFields, big_endian, class)

\* SectionHeader::unpack_class: the fixed fields, data: None.
SectionHeaderUnpackClass(d, p, big_endian, class) ==
    Try(UnpackFields(d, p, SectionHeaderFields, big_endian, class, <<>>),
        LAMBDA f : Ok(f.val @@ ("data" :> None), f.pos))

\* A SectionHeader::load that would add the bytes to a blob already
\* present; the materialization property must tell it from the code's.
SectionHeaderLoadAppend(sh, d, p) ==
    Try(BlobLoad(d, p, ToPos(sh.offset), ToPos(sh.size)), LAMBDA blob :
        Ok([sh EXCEPT !.data =
                IF sh.data.some
                THEN Some([blob |-> sh.data.val.blob \o blob.val.blob])
                ELSE Some(blob.val)],
           blob.pos))

\* SectionHeader::load: Blob::load of [offset, offset + size) into `data`;
\* on an error the record is left as it was.
SectionHeaderLoad(sh, d, p) ==
    Try(BlobLoad(d, p, ToPos(sh.offset), ToPos(sh.size)), LAMBDA blob :
        Ok([sh EXCEPT !.data = Some(blob.val)], blob.pos))

\* ProgramHeader::load, called by ELFFile::load_fully: Blob::load of
\* [offset, offset + file_size) replaces `data`.
ProgramHeaderLoad(ph, d, p) ==
    Try(BlobLoad(d, p, ToPos(ph.offset), ToPos(ph.file_size)), LAMBDA blob :
        Ok([ph EXCEPT !.data = blob.val], blob.pos))

\* ----------------------------------------------------------- file header

ELF_HEADER_SIZE_32 == 52

ELF_HEADER_SIZE_64 == 64

PROGRAM_HEADER_SIZE_32 == 32

PROGRAM_HEADER_SIZE_64 == 56

SECTION_HEADER_SIZE_32 == 40

SECTION_HEADER_SIZE_64 == 64

\* Header::get_header_size
get_header_size(header) ==
    IF header.ident.class = "ELF32" THEN ELF_HEADER_SIZE_32
    ELSE ELF_HEADER_SIZE_64

\* Header::get_program_header_size
get_program_header_size(header) ==
    IF header.ident.class = "ELF32" THEN PROGRAM_HEADER_SIZE_32
    ELSE PROGRAM_HEADER_SIZE_64

\* A get_section_header_size that would return the segment entry sizes;
\* the size property must tell it from the code's.
get_section_header_size_of_segment(header) ==
    IF header.ident.class = "ELF32" THEN PROGRAM_HEADER_SIZE_32
    ELSE PROGRAM_HEADER_SIZE_64

\* Header::get_section_header_size
get_section_header_size(header) ==
    IF header.ident.class = "ELF32" THEN SECTION_HEADER_SIZE_32
    ELSE SECTION_HEADER_SIZE_64

\* The fields of Header::pack / unpack after the ident.
HeaderFields ==
    <<Field("ty", "u16"), Field("machine", "u16"), Field("version", "u32"),
      Field("entry_point", "class"), Field("ph_offset", "class"),
      Field("sh_offset", "class"), Field("flags", "u32"),
      Field("header_size", "u16"), Field("ph_entry_size", "u16"),
      Field("ph_entry_count", "u16"), Field("sh_entry_size", "u16"),
      Field("sh_entry_count", "u16"), Field("sh_str_index", "u16")>>

\* Header::pack: byte order and class are those of the header's own ident.
HeaderPack(header) ==
    IdentPack(header.ident)
        \o PackFields(header, HeaderFields, is_big_endian(header.ident),
                      header.ident.class)

\* Header::unpack
HeaderUnpack(d, p) ==
    Try(IdentUnpack(d, p), LAMBDA ident :
        UnpackFields(d, ident.pos, HeaderFields, is_big_endian(ident.val),
                     ident.val.class, [ident |-> ident.val]))

\* The loop of Header::read_program_headers: n more entries from cursor p.
RECURSIVE ReadProgramEntries(_, _, _, _, _, _)
ReadProgramEntries(d, p, n, big_endian, class, res) ==
    IF n = 0 THEN Ok(res, p)
    ELSE Try(ProgramHeaderUnpackClass(d, p, big_endian, class), LAMBDA e :
             ReadProgramEntries(d, e.pos, n - 1, big_endian, class,
                                Append(res, e.val)))

\* Header::read_program_headers: seek to ph_offset, ph_entry_count entries.
read_program_headers(header, d) ==
    ReadProgramEntries(d, ToPos(header.ph_offset), header.ph_entry_count[1],
                       is_big_endian(header.ident), header.ident.class, <<>>)

\* The loop of Header::read_section_headers.
RECURSIVE ReadSectionEntries(_, _, _, _, _, _)
ReadSectionEntries(d, p, n, big_endian, class, res) ==
    IF n = 0 THEN Ok(res, p)
    ELSE Try(SectionHeaderUnpackClass(d, p, big_endian, class), LAMBDA e :
             ReadSectionEntries(d, e.pos, n - 1, big_endian, class,
                                Append(res, e.val)))

\* A read_section_headers that would take the segment entry count; the
\* table property must tell it from the code's.
read_section_headers_segment_count(header, d) ==
    ReadSectionEntries(d, ToPos(header.sh_offset), header.ph_entry_count[1],
                       is_big_endian(header.ident), header.ident.class, <<>>)

\* Header::read_section_headers: seek to sh_offset, sh_entry_count entries.
read_section_headers(header, d) ==
    ReadSectionEntries(d, ToPos(header.sh_offset), header.sh_entry_count[1],
                       is_big_endian(header.ident), header.ident.class, <<>>)

\* ------------------------------------------------------------- whole file

\* ELFFile::load
ELFFileLoad(d, p) ==
    Try(HeaderUnpack(d, p), LAMBDA header :
    Try(read_program_headers(header.val, d), LAMBDA program_headers :
    Try(read_section_headers(header.val, d), LAMBDA section_headers :
        Ok([header |-> header.val,
            program_headers |-> program_headers.val,
            section_headers |-> section_headers.val],
           section_headers.pos))))

\* `for header in &mut program_headers { header.load(r)?; }`
RECURSIVE LoadProgramHeaders(_, _, _, _)
LoadProgramHeaders(phs, d, p, res) ==
    IF phs = <<>> THEN Ok(res, p)
    ELSE Try(ProgramHeaderLoad(Head(phs), d, p), LAMBDA e :
             LoadProgramHeaders(Tail(phs), d, e.pos, Append(res, e.val)))

\* `for header in &mut section_headers { header.load(r)?; }`
RECURSIVE LoadSectionHeaders(_, _, _, _)
LoadSectionHeaders(shs, d, p, res) ==
    IF shs = <<>> THEN Ok(res, p)
    ELSE Try(SectionHeaderLoad(Head(shs), d, p), LAMBDA e :
             LoadSectionHeaders(Tail(shs), d, e.pos, Append(res, e.val)))

\* ELFFile::load_fully
ELFFileLoadFully(d, p) ==
    Try(HeaderUnpack(d, p), LAMBDA header :
    Try(read_program_headers(header.val, d), LAMBDA program_headers :
    Try(LoadProgramHeaders(program_headers.val, d, program_headers.pos, <<>>),
        LAMBDA loaded_ph :
    Try(read_section_headers(header.val, d), LAMBDA section_headers :
    Try(LoadSectionHeaders(section_headers.val, d, section_headers.pos, <<>>),
        LAMBDA loaded_sh :
        Ok([header |-> header.val,
            program_headers |-> loaded_ph.val,
            section_headers |-> loaded_sh.val],
           loaded_sh.pos))))))

\* ---------------------------------------------------- generated streams

Classes == {"ELF32", "ELF64"}

Endiannesses == {"Little", "Big"}

MkIdent(class, endianness) ==
    [magic |-> ELF_FILE_MAGIC, class |-> class, endianness |-> endianness,
     version |-> 1, os_abi |-> 0, abi_version |-> 0]

\* A header laid out canonically: the segment table right after the header,
\* the section table right after the segment table.
MkHeader(class, endianness, nph, nsh) ==
    LET ident == MkIdent(class, endianness)
        h == [ident |-> ident]
    IN  [ident |-> ident, ty |-> U16(2), machine |-> U16(62),
         version |-> U32(1), entry_point |-> U64(4096),
         ph_offset |-> U64(get_header_size(h)),
         sh_offset |-> U64(get_header_size(h)
                            + nph * get_program_header_size(h)),
         flags |-> U32(0), header_size |-> U16(get_header_size(h)),
         ph_entry_size |-> U16(get_program_header_size(h)),
         ph_entry_count |-> U16(nph),
         sh_entry_size |-> U16(get_section_header_size(h)),
         sh_entry_count |-> U16(nsh), sh_str_index |-> U16(0)]

\* Where the tables of MkHeader's layout end and the blob area begins.
BlobBase(class, nph, nsh) ==
    LET h == [ident |-> MkIdent(class, "Little")]
    IN  get_header_size(h) + nph * get_program_header_size(h)
            + nsh * get_section_header_size(h)

\* The k-th byte of the blob area: DE AD BE EF, then 11 22 33 ...
BlobByte(k) == IF k <= 4 THEN <<222, 173, 190, 239>>[k] ELSE 17 * (k - 4)

\* The blob area holds the 4-byte range of every segment (segment i at
\* base + i - 1) and the 3-byte range of every section (section j at
\* base + j).
BlobAreaLen(nph, nsh) ==
    Max(IF nph > 0 THEN nph + 3 ELSE 0, IF nsh > 0 THEN nsh + 3 ELSE 0)

MkSegment(i, offset, size) ==
    [ty |-> IF i = 1 THEN [tag |-> "Loadable"]
            ELSE [tag |-> "Other", n |-> U32(4660)],
     flags |-> U32(5), offset |-> U64(offset),
     virtual_addr |-> U64(4096 * i), physical_addr |-> U64(8192 * i),
     file_size |-> U64(size), mem_size |-> U64(size + 8),
     alignment |-> U64(16), data |-> [blob |-> <<>>]]

MkSection(j, offset, size) ==
    [name |-> U32(j), ty |-> U32(1), flags |-> U64(6),
     address |-> U64(12288 * j), offset |-> U64(offset), size |-> U64(size),
     link |-> U32(0), info |-> U32(7), addr_align |-> U64(8),
     entry_size |-> U64(0), data |-> None]

RECURSIVE Concat(_)
Concat(ss) == IF ss = <<>> THEN <<>> ELSE Head(ss) \o Concat(Tail(ss))

\* The stream of a layout.  shape "seg_out" / "sec_out" makes the range of
\* the last segment / section end one byte beyond the stream.
MkStream(class, endianness, nph, nsh, shape) ==
    LET big == endianness = "Big"
        base == BlobBase(class, nph, nsh)
        len == BlobAreaLen(nph, nsh)
        segsize(i) == IF shape = "seg_out" /\ i = nph THEN len - i + 2 ELSE 4
        secsize(j) == IF shape = "sec_out" /\ j = nsh THEN len - j + 1 ELSE 3
    IN  HeaderPack(MkHeader(class, endianness, nph, nsh))
            \o Concat([i \in 1..nph |->
                 ProgramHeaderPackClass(MkSegment(i, base + i - 1, segsize(i)),
                                        big, class)])
            \o Concat([j \in 1..nsh |->
                 SectionHeaderPackClass(MkSection(j, base + j, secsize(j)),
                                        big, class)])
            \o [k \in 1..len |-> BlobByte(k)]

\* Well-formed streams in both byte orders and, little-endian, streams
\* whose last range leaves the stream and streams cut three bytes before
\* the end of their tables.
LayoutStreams ==
    UNION {
        {MkStream(c, e, nph, nsh, "good") : e \in Endiannesses}
            \cup (IF nph > 0
                  THEN {MkStream(c, "Little", nph, nsh, "seg_out")} ELSE {})
            \cup (IF nsh > 0
                  THEN {MkStream(c, "Little", nph, nsh, "sec_out")} ELSE {})
            \cup {SubSeq(MkStream(c, "Little", nph, nsh, "good"), 1,
                         BlobBase(c, nph, nsh) - 3)} :
        c \in Classes, nph \in 0..MaxSegments, nsh \in 0..MaxSections}

SetByte(d, i, b) == [d EXCEPT ![i] = b]

\* Streams with a damaged identification, and streams that end early.
DamagedStreams ==
    UNION {
        LET d == MkStream(c, "Little", 1, 1, "good")
        IN  {SetByte(d, 1, 0),
             SetByte(d, 4, 71),
             SetByte(SetByte(d, 4, 71), 5, 9),
             SubSeq(SetByte(d, 2, 70), 1, 4),
             SubSeq(d, 1, 3),
             SetByte(d, 5, 3),
             SetByte(d, 5, 0),
             SetByte(d, 6, 0),
             SetByte(d, 6, 255),
             SetByte(SetByte(d, 5, 3), 6, 3),
             SubSeq(d, 1, 10),
             SubSeq(d, 1, 5),
             SubSeq(d, 1, BlobBase(c, 0, 0) - 1)} :
        c \in Classes}

Streams == LayoutStreams \cup DamagedStreams

\* -------------------------------------------------------- the operations

NoResult == [status |-> "none"]

NoRec == [kind |-> "none"]

\* What the caller holds after a load: the file, or the error.
Returned(r) ==
    IF r.ok THEN [status |-> "ok", file |-> r.val]
    ELSE [status |-> "err", err |-> r.err]

\* The cursor an operation leaves.  After a failed read_exact it is
\* unspecified how many bytes were consumed: anything from none to all
\* that were left.
Cursor(d, r) ==
    IF r.ok THEN {r.pos}
    ELSE IF r.err.kind = "IO" THEN r.pos..Max(r.pos, Len(d))
    ELSE {r.pos}

\* The record of an operation: its name, the cursor before it, its outcome,
\* and the record or the range it was applied to.  When a materialization
\* directly follows a materialization of the same record, `before` keeps
\* the cursor before, and the outcome of, that earlier call.  When a section
\* table read directly follows a segment table read, `before` keeps whether
\* that read succeeded.
Done(op, pre, r, arg) ==
    [op |-> op, pre |-> pre, r |-> r, arg |-> arg,
     before |-> IF op \in {"SectionLoad", "ProgramLoad"}
                    /\ last.op = op /\ last.arg = arg
                THEN [same |-> TRUE, pre |-> last.pre, r |-> last.r]
                ELSE IF op = "ReadSectionHeaders"
                        /\ last.op = "ReadProgramHeaders"
                THEN [same |-> FALSE, segments_ok |-> last.r.ok]
                ELSE [same |-> FALSE]]

Init ==
    /\ data \in Streams
    /\ pos = 0
    /\ result = NoResult
    /\ rec = NoRec
    /\ last = Done("Init", 0, Ok(<<>>, 0), <<>>)

\* The decoders are applied to the stream from its start: the caller seeks
\* to 0 (r.seek(SeekFrom::Start(0))) and calls the decoder.

\* Ident::unpack(r)
IdentUnpackOp ==
    LET r == IdentUnpack(data, 0)
    IN  /\ pos' \in Cursor(data, r)
        /\ last' = Done("IdentUnpack", pos, r, <<>>)
        /\ UNCHANGED <<data, result, rec>>

\* Header::unpack(r)
HeaderUnpackOp ==
    LET r == HeaderUnpack(data, 0)
    IN  /\ pos' \in Cursor(data, r)
        /\ last' = Done("HeaderUnpack", pos, r, <<>>)
        /\ UNCHANGED <<data, result, rec>>

\* ELFFile::load(r)
Load ==
    LET r == ELFFileLoad(data, 0)
    IN  /\ result' = Returned(r)
        /\ pos' \in Cursor(data, r)
        /\ last' = Done("Load", pos, r, <<>>)
        /\ UNCHANGED <<data, rec>>

\* ELFFile::load_fully(r)
LoadFully ==
    LET r == ELFFileLoadFully(data, 0)
    IN  /\ result' = Returned(r)
        /\ pos' \in Cursor(data, r)
        /\ last' = Done("LoadFully", pos, r, <<>>)
        /\ UNCHANGED <<data, rec>>

\* file.section_headers[i].load(r)
SectionLoad(i) ==
    /\ result.status = "ok"
    /\ i \in 1..Len(result.file.section_headers)
    /\ LET r == SectionHeaderLoad(result.file.section_headers[i], data, pos)
       IN  /\ result' = IF r.ok
                        THEN [result EXCEPT !.file.section_headers[i] = r.val]
                        ELSE result
           /\ pos' \in Cursor(data, r)
           /\ last' = Done("SectionLoad", pos, r, <<i>>)
    /\ UNCHANGED <<data, rec>>

\* file.program_headers[i].load(r)
ProgramLoad(i) ==
    /\ result.status = "ok"
    /\ i \in 1..Len(result.file.program_headers)
    /\ LET r == ProgramHeaderLoad(result.file.program_headers[i], data, pos)
       IN  /\ result' = IF r.ok
                        THEN [result EXCEPT !.file.program_headers[i] = r.val]
                        ELSE result
           /\ pos' \in Cursor(data, r)
           /\ last' = Done("ProgramLoad", pos, r, <<i>>)
    /\ UNCHANGED <<data, rec>>

\* Blob::load(r, offset, size) for ranges inside, across and beyond the end
\* of the stream.
BlobLoadOp(offset, size) ==
    LET r == BlobLoad(data, pos, offset, size)
    IN  /\ pos' \in Cursor(data, r)
        /\ last' = Done("BlobLoad", pos, r, <<offset, size>>)
        /\ UNCHANGED <<data, result, rec>>

\* file.section_headers[i].data.write(w, offset): a materialized blob is
\* written back to the stream at the section's offset.
BlobWriteOp(i) ==
    /\ result.status = "ok"
    /\ i \in 1..Len(result.file.section_headers)
    /\ result.file.section_headers[i].data.some
    /\ LET sh == result.file.section_headers[i]
           w == BlobWrite(sh.data.val, data, pos, ToPos(sh.offset))
       IN  /\ data' = w.data
           /\ pos' = w.pos
           /\ last' = Done("BlobWrite", pos, Ok(<<>>, w.pos), <<i>>)
    /\ UNCHANGED <<result, rec>>

\* The ranges Blob::load is called with directly: <<offset, size>>.
BlobRanges ==
    {<<Len(data) - 2, 2>>, <<Len(data) - 2, 4>>, <<Len(data) + 1, 0>>}

Next ==
    \/ IdentUnpackOp
    \/ HeaderUnpackOp
    \/ Load
    \/ LoadFully
    \/ \E i \in 1..MaxSections + 1 : SectionLoad(i)
    \/ \E i \in 1..MaxSegments + 1 : ProgramLoad(i)
    \/ \E rg \in BlobRanges : BlobLoadOp(rg[1], rg[2])
    \/ \E i \in 1..MaxSections + 1 : BlobWriteOp(i)

Spec == Init /\ [][Next]_vars

\* ------------------------------------------------------ the table reads

\* TableSpec decodes the file header of a stream and calls the two table
\* readers on it, in any order and from wherever the cursor was left.

TableInit ==
    /\ data \in Streams
    /\ pos = 0
    /\ result = NoResult
    /\ rec = NoRec
    /\ last = Done("Init", 0, Ok(<<>>, 0), <<>>)

\* let header = Header::unpack(r, false), from the start of the stream; the
\* caller holds a header only when the decode succeeded.
HeaderKeepOp ==
    LET r == HeaderUnpack(data, 0)
    IN  /\ rec' = IF r.ok THEN [kind |-> "header", header |-> r.val] ELSE rec
        /\ pos' \in Cursor(data, r)
        /\ last' = Done("HeaderUnpack", pos, r, <<>>)
        /\ UNCHANGED <<data, result>>

\* header.read_program_headers(r)
ReadProgramHeadersOp ==
    /\ rec.kind = "header"
    /\ LET r == read_program_headers(rec.header, data)
       IN  /\ pos' \in Cursor(data, r)
           /\ last' = Done("ReadProgramHeaders", pos, r, <<>>)
    /\ UNCHANGED <<data, result, rec>>

\* header.read_section_headers(r)
ReadSectionHeadersOp ==
    /\ rec.kind = "header"
    /\ LET r == read_section_headers(rec.header, data)
       IN  /\ pos' \in Cursor(data, r)
           /\ last' = Done("ReadSectionHeaders", pos, r, <<>>)
    /\ UNCHANGED <<data, result, rec>>

TableNext ==
    \/ HeaderKeepOp
    \/ ReadProgramHeadersOp
    \/ ReadSectionHeadersOp

TableSpec == TableInit /\ [][TableNext]_vars

\* ------------------------------------------------- the codec, by itself

\* CodecSpec applies the encoders to values drawn from the sets below, on an
\* empty stream, and the decoders to what was written.

\* u64 values: small, with bit 31 set, beyond 32 bits, all ones.
U64Values ==
    {<<a, b, c, e>> : a \in {0, 1, 65535}, b \in {0, 32768},
                      c \in {0, 1}, e \in {0, 65535}}

\* Raw segment type tags, as the 4 bytes found in a stream.
TagBytes ==
    {<<a, b, 0, e>> : a \in {0, 1, 2, 3, 4, 6, 52, 255}, b \in {0, 18},
                      e \in {0, 1, 3, 6}}

ProgramHeaderTypes ==
    {[tag |-> t] : t \in {"Unused", "Loadable", "Dynamic", "Interpreter",
                          "ProgramHeaderTable"}}
        \cup {[tag |-> "Other", n |-> n] :
                n \in {U32(4660), <<65535, 65535>>, U32(1)}}

\* Segment records: every type variant, ranges that are empty, inside and
\* outside the record's own encoding, addresses within and beyond 32 bits.
SegmentValues ==
    {[ty |-> ty, flags |-> fl, offset |-> U64(rg[1]), virtual_addr |-> va,
      physical_addr |-> U64(8192), file_size |-> U64(rg[2]),
      mem_size |-> U64(12), alignment |-> U64(16), data |-> [blob |-> <<>>]] :
        ty \in ProgramHeaderTypes, fl \in {U32(5), <<65535, 65535>>},
        rg \in {<<0, 0>>, <<0, 4>>, <<120, 4>>},
        va \in {U64(4096), <<1, 0, 1, 0>>}}

SectionValues ==
    {[name |-> nm, ty |-> U32(1), flags |-> fl, address |-> U64(12288),
      offset |-> U64(rg[1]), size |-> U64(rg[2]), link |-> U32(2),
      info |-> U32(7), addr_align |-> U64(8), entry_size |-> es,
      data |-> None] :
        nm \in {U32(27), <<65535, 65535>>}, fl \in {U64(6), <<1, 0, 1, 0>>},
        rg \in {<<0, 0>>, <<120, 4>>},
        es \in {U64(0), <<65535, 65535, 0, 0>>}}

HeaderValues ==
    {[MkHeader(c, e, n[1], n[2]) EXCEPT
        !.entry_point = ep, !.flags = fl, !.header_size = hs,
        !.ph_entry_size = IF hs = U16(65535) THEN U16(1) ELSE @,
        !.sh_entry_size = IF hs = U16(65535) THEN U16(7) ELSE @] :
        c \in Classes, e \in Endiannesses, n \in {<<1, 2>>, <<65535, 0>>},
        ep \in {U64(4096), <<1, 0, 1, 0>>, <<65535, 65535, 65535, 65535>>},
        fl \in {U32(0), <<65535, 32768>>}, hs \in {U16(64), U16(65535)}}

CodecInputs ==
    {[kind |-> "header", header |-> h] : h \in HeaderValues}
        \cup {[kind |-> "segment", ph |-> v, big_endian |-> b, class |-> c] :
                v \in SegmentValues, b \in BOOLEAN, c \in Classes}
        \cup {[kind |-> "section", sh |-> v, big_endian |-> b, class |-> c] :
                v \in SectionValues, b \in BOOLEAN, c \in Classes}
        \cup {[kind |-> "u64", v |-> v, big_endian |-> b, class |-> c] :
                v \in U64Values, b \in BOOLEAN, c \in Classes}
        \cup {[kind |-> "tag", bytes |-> t, big_endian |-> b] :
                t \in TagBytes, b \in BOOLEAN}

CodecInit ==
    /\ rec \in CodecInputs
    /\ data = IF rec.kind = "tag" THEN rec.bytes ELSE <<>>
    /\ pos = 0
    /\ result = NoResult
    /\ last = Done("Init", 0, Ok(<<>>, 0), <<>>)

\* An encoder writes its bytes at the cursor with write_all.
Written(op, bytes) ==
    /\ data' = write_all(data, pos, bytes)
    /\ pos' = pos + Len(bytes)
    /\ last' = Done(op, pos, Ok(<<>>, pos + Len(bytes)), <<>>)
    /\ UNCHANGED <<result, rec>>

\* A decoder reads from the start of the stream.
Read(op, r) ==
    /\ pos' \in Cursor(data, r)
    /\ last' = Done(op, pos, r, <<>>)
    /\ UNCHANGED <<data, result, rec>>

\* header.pack(w, _)
HeaderPackOp ==
    /\ rec.kind = "header" /\ last.op = "Init"
    /\ Written("HeaderPack", HeaderPack(rec.header))

\* Header::unpack(r, _) of what was written
HeaderDecodeOp ==
    /\ rec.kind = "header" /\ last.op = "HeaderPack"
    /\ Read("HeaderUnpack", HeaderUnpack(data, 0))

\* program_header.pack_class(w, big_endian, class)
ProgramHeaderPackOp ==
    /\ rec.kind = "segment" /\ last.op = "Init"
    /\ Written("ProgramHeaderPack",
               ProgramHeaderPackClass(rec.ph, rec.big_endian, rec.class))

\* ProgramHeader::unpack_class(r, big_endian, class) of what was written
ProgramHeaderUnpackOp ==
    /\ rec.kind = "segment" /\ last.op = "ProgramHeaderPack"
    /\ Read("ProgramHeaderUnpack",
            ProgramHeaderUnpackClass(data, 0, rec.big_endian, rec.class))

\* section_header.pack_class(w, big_endian, class)
SectionHeaderPackOp ==
    /\ rec.kind = "section" /\ last.op = "Init"
    /\ Written("SectionHeaderPack",
               SectionHeaderPackClass(rec.sh, rec.big_endian, rec.class))

\* SectionHeader::unpack_class(r, big_endian, class) of what was written
SectionHeaderUnpackOp ==
    /\ rec.kind = "section" /\ last.op = "SectionHeaderPack"
    /\ Read("SectionHeaderUnpack",
            SectionHeaderUnpackClass(data, 0, rec.big_endian, rec.class))

\* value.pack_class(w, big_endian, class) of a u64
U64PackClassOp ==
    /\ rec.kind = "u64" /\ last.op = "Init"
    /\ Written("U64PackClass",
               U64PackClass(rec.v, rec.big_endian, rec.class))

\* u64::unpack_class(r, big_endian, class) of what was written
U64UnpackClassOp ==
    /\ rec.kind = "u64" /\ last.op = "U64PackClass"
    /\ Read("U64UnpackClass",
            U64UnpackClass(data, 0, rec.big_endian, rec.class))

\* ProgramHeaderType::unpack(r, big_endian) of a raw tag
TypeUnpackOp ==
    /\ rec.kind = "tag" /\ last.op = "Init"
    /\ Read("TypeUnpack", ProgramHeaderTypeUnpack(data, 0, rec.big_endian))

\* ty.pack(w, big_endian) of the decoded variant, after the raw tag
TypePackOp ==
    /\ rec.kind = "tag" /\ last.op = "TypeUnpack" /\ last.r.ok
    /\ Written("TypePack", ProgramHeaderTypePack(last.r.val, rec.big_endian))

CodecNext ==
    \/ HeaderPackOp
    \/ HeaderDecodeOp
    \/ ProgramHeaderPackOp
    \/ ProgramHeaderUnpackOp
    \/ SectionHeaderPackOp
    \/ SectionHeaderUnpackOp
    \/ U64PackClassOp
    \/ U64UnpackClassOp
    \/ TypeUnpackOp
    \/ TypePackOp

CodecSpec == CodecInit /\ [][CodecNext]_vars

\* ---------------------------------------------------------------- claims

\* A class-width value fits the class when its upper 32 bits are zero, or
\* the class is 64-bit.
Fits(v, class) == class = "ELF64" \/ (v[3] = 0 /\ v[4] = 0)

AllFit(r, names, class) == \A n \in names : Fits(r[n], class)

SameFields(a, b, names) == \A n \in names : a[n] = b[n]

HeaderFieldNames == {HeaderFields[i].name : i \in DOMAIN HeaderFields}

HeaderClassFields == {"entry_point", "ph_offset", "sh_offset"}

SegmentFieldNames ==
    {"ty", "flags", "offset", "virtual_addr", "physical_addr", "file_size",
     "mem_size", "alignment"}

SegmentClassFields ==
    {"offset", "virtual_addr", "physical_addr", "file_size", "mem_size",
     "alignment"}

SectionFieldNames ==
    {SectionHeaderFields[i].name : i \in DOMAIN SectionHeaderFields}

SectionClassFields ==
    {"flags", "address", "offset", "size", "addr_align", "entry_size"}

\* C1: decoding the bytes an encoder wrote for a File Header, a Segment
\* Header or a Section Header whose class-width fields fit the class succeeds
\* and yields the original record in every structural field.
C1_RoundTrip ==
    /\ (rec.kind = "header" /\ last.op = "HeaderUnpack"
            /\ AllFit(rec.header, HeaderClassFields, rec.header.ident.class))
        => (last.r.ok /\ last.r.val.ident = rec.header.ident
                /\ SameFields(last.r.val, rec.header, HeaderFieldNames))
    /\ (rec.kind = "segment" /\ last.op = "ProgramHeaderUnpack"
            /\ AllFit(rec.ph, SegmentClassFields, rec.class))
        => (last.r.ok /\ SameFields(last.r.val, rec.ph, SegmentFieldNames))
    /\ (rec.kind = "section" /\ last.op = "SectionHeaderUnpack"
            /\ AllFit(rec.sh, SectionClassFields, rec.class))
        => (last.r.ok /\ SameFields(last.r.val, rec.sh, SectionFieldNames))

\* The decoders that begin with the identification record.
IdentDecoders == {"IdentUnpack", "HeaderUnpack", "Load", "LoadFully"}

\* The identification record a successful decoder returned.
DecodedIdent ==
    IF last.op = "IdentUnpack" THEN last.r.val
    ELSE IF last.op = "HeaderUnpack" THEN last.r.val.ident
    ELSE last.r.val.header.ident

\* C2: a stream of at least 4 bytes whose first 4 bytes are not 7F 45 4C 46
\* makes every decoder fail with InvalidMagic carrying the expected and the
\* read bytes, with the cursor right after those 4 bytes, whatever follows.
C2_MagicGate ==
    (last.op \in IdentDecoders /\ Len(data) >= 4
            /\ SubSeq(data, 1, 4) # <<127, 69, 76, 70>>)
        => /\ ~last.r.ok
           /\ last.r.err = [kind |-> "InvalidMagic",
                            expected |-> <<127, 69, 76, 70>>,
                            got |-> SubSeq(data, 1, 4)]
           /\ pos = 4
           /\ last.op \in {"Load", "LoadFully"}
                => result = [status |-> "err", err |-> last.r.err]

\* A whole-file load stopped at the magic of a stream whose class byte is
\* invalid too.
C2_Witness ==
    /\ last.op = "Load" /\ ~last.r.ok /\ last.r.err.kind = "InvalidMagic"
    /\ Len(data) > 5 /\ data[5] = 9

\* C3: with a valid magic, class byte 1 is ELF32 and 2 is ELF64, endianness
\* byte 1 is Little and 2 is Big; another class byte fails with
\* InvalidEnumVariant "Class", another endianness byte (after a valid class)
\* with InvalidEnumVariant "Endianness"; the class error comes first.
C3_Tags ==
    (last.op \in IdentDecoders /\ Len(data) >= 6
            /\ SubSeq(data, 1, 4) = <<127, 69, 76, 70>>)
        => /\ data[5] \notin {1, 2}
                => /\ ~last.r.ok
                   /\ last.r.err = [kind |-> "InvalidEnumVariant",
                                    name |-> "Class", variant |-> data[5]]
           /\ (data[5] \in {1, 2} /\ data[6] \notin {1, 2})
                => /\ ~last.r.ok
                   /\ last.r.err = [kind |-> "InvalidEnumVariant",
                                    name |-> "Endianness",
                                    variant |-> data[6]]
           /\ last.r.ok
                => /\ data[5] \in {1, 2} /\ data[6] \in {1, 2}
                   /\ DecodedIdent.class
                        = (IF data[5] = 1 THEN "ELF32" ELSE "ELF64")
                   /\ DecodedIdent.endianness
                        = (IF data[6] = 1 THEN "Little" ELSE "Big")

\* Both tag bytes are invalid and the class error is the one reported.
C3_Witness ==
    /\ last.op = "HeaderUnpack" /\ ~last.r.ok
    /\ Len(data) >= 6 /\ data[5] = 3 /\ data[6] = 3
    /\ last.r.err.kind = "InvalidEnumVariant" /\ last.r.err.name = "Class"

\* The 16-bit limbs, least significant first, of the integer that bytes b
\* hold in the given byte order.
LimbsOf(b, big_endian) ==
    LET le == IF big_endian THEN Reverse(b) ELSE b
    IN  [k \in 1..(Len(b) \div 2) |-> le[2 * k - 1] + 256 * le[2 * k]]

\* v mod 2^32, zero-extended to 64 bits.
Low32(v) == <<v[1], v[2], 0, 0>>

\* C4: under ELF64 pack_class of a u64 writes exactly 8 bytes holding v and
\* unpack_class returns v; under ELF32 it writes exactly 4 bytes holding
\* v mod 2^32, without an error, and unpack_class returns v mod 2^32
\* zero-extended.
C4_ClassWidth ==
    /\ (rec.kind = "u64" /\ last.op = "U64PackClass")
        => /\ last.r.ok
           /\ rec.class = "ELF64"
                => Len(data) = 8 /\ LimbsOf(data, rec.big_endian) = rec.v
           /\ rec.class = "ELF32"
                => /\ Len(data) = 4
                   /\ LimbsOf(data, rec.big_endian) = <<rec.v[1], rec.v[2]>>
    /\ (rec.kind = "u64" /\ last.op = "U64UnpackClass")
        => /\ last.r.ok
           /\ last.r.val = (IF rec.class = "ELF64" THEN rec.v
                            ELSE Low32(rec.v))
           /\ pos = Len(data)

\* 0x1_0000_0001 written under ELF32 is 01 00 00 00 and comes back as 1.
C4_Witness ==
    /\ rec.kind = "u64" /\ rec.class = "ELF32" /\ ~rec.big_endian
    /\ rec.v = <<1, 0, 1, 0>>
    /\ last.op = "U64UnpackClass" /\ last.r.ok
    /\ data = <<1, 0, 0, 0>> /\ last.r.val = <<1, 0, 0, 0>>

\* The order of the segment fields in each class.
SegmentOrder(class) ==
    IF class = "ELF64"
    THEN <<"ty", "flags", "offset", "virtual_addr", "physical_addr",
           "file_size", "mem_size", "alignment">>
    ELSE <<"ty", "offset", "virtual_addr", "physical_addr", "file_size",
           "mem_size", "flags", "alignment">>

\* The bytes of one segment field.
SegmentFieldBytes(ph, name, big_endian, class) ==
    IF name = "ty" THEN ProgramHeaderTypePack(ph.ty, big_endian)
    ELSE IF name = "flags" THEN IntPack(ph.flags, big_endian)
    ELSE U64PackClass(ph[name], big_endian, class)

\* Where the 4 flags bytes start: right after the 4-byte type under ELF64,
\* after the type and five 4-byte fields under ELF32.
FlagsAt(class) == IF class = "ELF64" THEN 4 ELSE 24

\* C5: the segment encoder writes type, flags, offset, virtual address,
\* physical address, file size, memory size, alignment under ELF64 and
\* type, offset, virtual address, physical address, file size, memory size,
\* flags, alignment under ELF32, with one flags field; a successful decode
\* reads them back in the same order.
C5_FieldOrder ==
    /\ (rec.kind = "segment" /\ last.op = "ProgramHeaderPack")
        => /\ data = Concat([i \in 1..8 |->
                        SegmentFieldBytes(rec.ph, SegmentOrder(rec.class)[i],
                                          rec.big_endian, rec.class)])
           /\ Len(data) = (IF rec.class = "ELF64" THEN 56 ELSE 32)
           /\ LimbsOf(SubSeq(data, FlagsAt(rec.class) + 1,
                             FlagsAt(rec.class) + 4), rec.big_endian)
                = rec.ph.flags
    /\ (rec.kind = "segment" /\ last.op = "ProgramHeaderUnpack" /\ last.r.ok)
        => /\ last.r.val.flags = rec.ph.flags
           /\ \A n \in SegmentClassFields :
                last.r.val[n] = (IF rec.class = "ELF64" THEN rec.ph[n]
                                 ELSE Low32(rec.ph[n]))
           /\ pos = Len(data)

\* An ELF32 record was decoded with its flags taken from bytes 25..28.
C5_Witness ==
    /\ rec.kind = "segment" /\ rec.class = "ELF32"
    /\ rec.ph.flags = <<65535, 65535>>
    /\ last.op = "ProgramHeaderUnpack" /\ last.r.ok
    /\ last.r.val.flags = <<65535, 65535>>
    /\ SubSeq(data, 25, 28) = <<255, 255, 255, 255>>
    /\ SubSeq(data, 5, 8) # <<255, 255, 255, 255>>

\* The variant a 32-bit tag value stands for.
VariantOf(n) ==
    IF n = <<0, 0>> THEN [tag |-> "Unused"]
    ELSE IF n = <<1, 0>> THEN [tag |-> "Loadable"]
    ELSE IF n = <<2, 0>> THEN [tag |-> "Dynamic"]
    ELSE IF n = <<3, 0>> THEN [tag |-> "Interpreter"]
    ELSE IF n = <<6, 0>> THEN [tag |-> "ProgramHeaderTable"]
    ELSE [tag |-> "Other", n |-> n]

\* C6: decoding a segment type tag succeeds for every 32-bit value in
\* either byte order; 0, 1, 2, 3, 6 are Unused, Loadable, Dynamic,
\* Interpreter, ProgramHeaderTable, any other n is Other(n); encoding the
\* decoded variant writes the same 4 bytes again.
C6_TypeTag ==
    /\ (rec.kind = "tag" /\ last.op = "TypeUnpack")
        => /\ last.r.ok
           /\ last.r.val = VariantOf(LimbsOf(rec.bytes, rec.big_endian))
           /\ pos = 4
    /\ (rec.kind = "tag" /\ last.op = "TypePack")
        => data = rec.bytes \o rec.bytes

\* The tag 0x1234 was decoded and written again as 34 12 00 00.
C6_Witness ==
    /\ rec.kind = "tag" /\ ~rec.big_endian /\ rec.bytes = <<52, 18, 0, 0>>
    /\ last.op = "TypePack"
    /\ data = <<52, 18, 0, 0, 52, 18, 0, 0>>

\* The streams whose header and tables are well-formed.
WellFormedStreams ==
    {MkStream(c, e, nph, nsh, shape) :
        c \in Classes, e \in Endiannesses, nph \in 0..MaxSegments,
        nsh \in 0..MaxSections, shape \in {"good", "seg_out", "sec_out"}}

\* C7: after a successful ELFFile::load no program header and no section
\* header holds a blob, and ELFFile::load succeeds on every stream whose
\* header and tables are well-formed, wherever the records' ranges lie.
C7_NoBlobAfterLoad ==
    /\ (last.op = "Load" /\ last.r.ok)
        => /\ \A i \in DOMAIN result.file.program_headers :
                result.file.program_headers[i].data = None
           /\ \A j \in DOMAIN result.file.section_headers :
                result.file.section_headers[j].data = None
    /\ (last.op = "Load" /\ data \in WellFormedStreams) => last.r.ok

\* The u16 stored at byte offset `at` of the stream.
StoredU16(at) ==
    IF data[6] = 2 THEN 256 * data[at + 1] + data[at + 2]
    ELSE data[at + 1] + 256 * data[at + 2]

\* The stored segment-entry and section-entry counts of the file header.
StoredSegmentCount == StoredU16(IF data[5] = 1 THEN 44 ELSE 56)

StoredSectionCount == StoredU16(IF data[5] = 1 THEN 48 ELSE 60)

\* The source bytes [offset, offset + size).
SourceRange(offset, size) ==
    SubSeq(data, ToPos(offset) + 1, ToPos(offset) + ToPos(size))

\* C8: after a successful ELFFile::load_fully the segment list and the
\* section list have the stored numbers of entries, every segment's blob
\* is the source bytes [offset, offset + file_size) and every section's
\* blob the source bytes [offset, offset + size).
C8_FullLoad ==
    (last.op = "LoadFully" /\ last.r.ok)
        => LET f == result.file
           IN  /\ result.status = "ok"
               /\ Len(f.program_headers) = StoredSegmentCount
               /\ Len(f.section_headers) = StoredSectionCount
               /\ \A i \in DOMAIN f.program_headers :
                    f.program_headers[i].data
                        = [blob |-> SourceRange(f.program_headers[i].offset,
                                                f.program_headers[i].file_size)]
               /\ \A j \in DOMAIN f.section_headers :
                    f.section_headers[j].data
                        = Some([blob |-> SourceRange(f.section_headers[j].offset,
                                                     f.section_headers[j].size)])

\* The ELF64 little-endian stream with one loadable segment at 0x78 of
\* file size 4 over DE AD BE EF was fully loaded.
C8_Witness ==
    /\ last.op = "LoadFully" /\ last.r.ok
    /\ data = MkStream("ELF64", "Little", 1, 0, "good")
    /\ Len(data) = 124 /\ SubSeq(data, 121, 124) = <<222, 173, 190, 239>>
    /\ Len(result.file.program_headers) = 1
    /\ result.file.program_headers[1].ty = [tag |-> "Loadable"]
    /\ result.file.program_headers[1].offset = U64(120)
    /\ result.file.program_headers[1].file_size = U64(4)
    /\ result.file.program_headers[1].data = [blob |-> <<222, 173, 190, 239>>]

\* C9: when SectionHeader::load is called twice in a row on the same record
\* whose range lies within the unchanged source, both calls succeed, both
\* hold the source bytes of the range, and the cursor after the second call
\* is where it was before the first.
C9_Idempotent ==
    (last.op = "SectionLoad" /\ last.before.same
            /\ LET sh == result.file.section_headers[last.arg[1]]
               IN  ToPos(sh.offset) + ToPos(sh.size) <= Len(data))
        => LET sh == result.file.section_headers[last.arg[1]]
               bytes == SourceRange(sh.offset, sh.size)
           IN  /\ last.before.r.ok /\ last.r.ok
               /\ last.before.r.val.data = Some([blob |-> bytes])
               /\ last.r.val.data = Some([blob |-> bytes])
               /\ sh.data = Some([blob |-> bytes])
               /\ pos = last.before.pre

\* A section's three bytes were materialized twice with the cursor away
\* from the section's range.
C9_Witness ==
    /\ last.op = "SectionLoad" /\ last.before.same
    /\ last.before.r.ok /\ last.r.ok
    /\ Len(last.r.val.data.val.blob) = 3
    /\ pos = last.before.pre
    /\ pos # ToPos(last.r.val.offset)

\* C10: Blob::load and Blob::write leave the cursor where it was before
\* the call, for every offset and size, also when Blob::load returns an
\* I/O error.
C10_CursorKept ==
    last.op \in {"BlobLoad", "BlobWrite"} => pos = last.pre

\* The three derived sizes of a header: header, segment entry, section
\* entry.
DerivedSizes(header) ==
    <<get_header_size(header), get_program_header_size(header),
      get_section_header_size(header)>>

\* C11: the derived sizes are 0x34, 0x20, 0x28 for ELF32 and 0x40, 0x38,
\* 0x40 for ELF64, whatever header size and entry sizes the header stores,
\* and a header whose stored sizes differ from them still decodes.
C11_DerivedSizes ==
    /\ rec.kind = "header"
        => DerivedSizes(rec.header)
            = (IF rec.header.ident.class = "ELF32" THEN <<52, 32, 40>>
               ELSE <<64, 56, 64>>)
    /\ (rec.kind = "header" /\ last.op = "HeaderUnpack")
        => /\ last.r.ok
           /\ last.r.val.header_size = rec.header.header_size
           /\ last.r.val.ph_entry_size = rec.header.ph_entry_size
           /\ last.r.val.sh_entry_size = rec.header.sh_entry_size
           /\ DerivedSizes(last.r.val)
                = (IF last.r.val.ident.class = "ELF32" THEN <<52, 32, 40>>
                   ELSE <<64, 56, 64>>)

\* An ELF32 header storing header size 0xFFFF and entry sizes 1 and 7 was
\* decoded, and its derived sizes are 0x34, 0x20, 0x28.
C11_Witness ==
    /\ rec.kind = "header" /\ last.op = "HeaderUnpack" /\ last.r.ok
    /\ last.r.val.ident.class = "ELF32"
    /\ last.r.val.header_size = U16(65535)
    /\ last.r.val.ph_entry_size = U16(1)
    /\ last.r.val.sh_entry_size = U16(7)
    /\ DerivedSizes(last.r.val) = <<52, 32, 40>>

\* The i-th consecutive segment entry after the stored segment-table offset
\* of the kept header, decoded with the header's class and byte order.
SegmentEntry(i) ==
    LET h == rec.header
    IN  ProgramHeaderUnpackClass(
            data,
            ToPos(h.ph_offset)
                + (i - 1) * (IF h.ident.class = "ELF32" THEN 32 ELSE 56),
            h.ident.endianness = "Big", h.ident.class)

\* The i-th consecutive section entry after the stored section-table offset.
SectionEntry(i) ==
    LET h == rec.header
    IN  SectionHeaderUnpackClass(
            data,
            ToPos(h.sh_offset)
                + (i - 1) * (IF h.ident.class = "ELF32" THEN 40 ELSE 64),
            h.ident.endianness = "Big", h.ident.class)

NoTagError ==
    /\ Len(data) >= 4 => SubSeq(data, 1, 4) = <<127, 69, 76, 70>>
    /\ Len(data) >= 5 => data[5] \in {1, 2}
    /\ Len(data) >= 6 => data[6] \in {1, 2}

\* The length of the file header the stream announces.
HeaderLen == IF Len(data) >= 5 /\ data[5] = 1 THEN 52 ELSE 64

\* Where the later of the two tables of a decoded header ends.
TablesEnd(h) ==
    LET class32 == h.ident.class = "ELF32"
    IN  Max(IF h.ph_entry_count[1] = 0 THEN 0
            ELSE ToPos(h.ph_offset)
                    + h.ph_entry_count[1] * (IF class32 THEN 32 ELSE 56),
            IF h.sh_entry_count[1] = 0 THEN 0
            ELSE ToPos(h.sh_offset)
                    + h.sh_entry_count[1] * (IF class32 THEN 40 ELSE 64))

\* C13: a stream that ends inside the identification, the file header or a
\* declared table entry makes the decode fail with an I/O error; a failed
\* ELFFile::load / load_fully returns the error and no file value, and a
\* file value is returned only when the header and all declared entries
\* were there to decode.
C13_AllOrNothing ==
    /\ (last.op \in IdentDecoders /\ NoTagError /\ Len(data) < 16)
        => ~last.r.ok /\ last.r.err = [kind |-> "IO"]
    /\ (last.op \in IdentDecoders \ {"IdentUnpack"} /\ NoTagError
            /\ Len(data) < HeaderLen)
        => ~last.r.ok /\ last.r.err = [kind |-> "IO"]
    /\ (last.op \in {"Load", "LoadFully"} /\ HeaderUnpack(data, 0).ok
            /\ Len(data) < TablesEnd(HeaderUnpack(data, 0).val))
        => ~last.r.ok /\ last.r.err = [kind |-> "IO"]
    /\ (last.op \in {"Load", "LoadFully"} /\ ~last.r.ok)
        => result = [status |-> "err", err |-> last.r.err]
    /\ (last.op \in {"Load", "LoadFully"} /\ last.r.ok)
        => /\ result = [status |-> "ok", file |-> last.r.val]
           /\ NoTagError /\ Len(data) >= HeaderLen
           /\ HeaderUnpack(data, 0).ok
           /\ result.file.header = HeaderUnpack(data, 0).val
           /\ Len(data) >= TablesEnd(result.file.header)
           /\ Len(result.file.program_headers) = StoredSegmentCount
           /\ Len(result.file.section_headers) = StoredSectionCount

\* ELFFile::load failed with an I/O error on a stream whose header is whole
\* and whose last table entry is cut, and returned no file.
C13_Witness ==
    /\ last.op = "Load" /\ ~last.r.ok /\ last.r.err = [kind |-> "IO"]
    /\ HeaderUnpack(data, 0).ok
    /\ Len(data) < TablesEnd(HeaderUnpack(data, 0).val)
    /\ Len(data) > HeaderLen
    /\ result.status = "err"

\* What a step that is a SectionHeader::load call on section i does to the
\* file value the caller holds.
OnlyBlobChanged(i) ==
    LET old == result.file.section_headers[i]
        new == result'.file.section_headers[i]
    IN  /\ result'.status = "ok"
        /\ result'.file.header = result.file.header
        /\ result'.file.program_headers = result.file.program_headers
        /\ Len(result'.file.section_headers) = Len(result.file.section_headers)
        /\ \A j \in DOMAIN result.file.section_headers :
                j # i => result'.file.section_headers[j]
                            = result.file.section_headers[j]
        /\ SameFields(new, old, SectionFieldNames)
        /\ last'.r.ok
            => new.data = Some([blob |-> SourceRange(old.offset, old.size)])
        /\ ~last'.r.ok => new = old
        /\ old.data.some => new.data.some

OfClass(class) == [ident |-> [class |-> class]]

\* The sizes of header, segment entry and section entry by class.
CanonicalSize(kind, class) ==
    IF kind = "header" THEN (IF class = "ELF32" THEN 52 ELSE 64)
    ELSE IF kind = "segment" THEN (IF class = "ELF32" THEN 32 ELSE 56)
    ELSE (IF class = "ELF32" THEN 40 ELSE 64)

\* C15: Header::pack writes get_header_size() bytes (0x34 / 0x40), the
\* first 16 being the identification ending in 7 zero bytes; a segment
\* header is written in get_program_header_size() bytes (0x20 / 0x38) and a
\* section header in get_section_header_size() bytes (0x28 / 0x40); a
\* successful decode from the start leaves the cursor that many bytes on.
C15_EncodedLength ==
    /\ (rec.kind = "header" /\ last.op \in {"HeaderPack", "HeaderUnpack"})
        => /\ Len(data) = get_header_size(rec.header)
           /\ Len(data) = CanonicalSize("header", rec.header.ident.class)
           /\ SubSeq(data, 1, 4) = <<127, 69, 76, 70>>
           /\ SubSeq(data, 10, 16) = <<0, 0, 0, 0, 0, 0, 0>>
           /\ last.r.ok => pos = Len(data)
    /\ (rec.kind = "segment"
            /\ last.op \in {"ProgramHeaderPack", "ProgramHeaderUnpack"})
        => /\ Len(data) = get_program_header_size(OfClass(rec.class))
           /\ Len(data) = CanonicalSize("segment", rec.class)
           /\ last.r.ok => pos = Len(data)
    /\ (rec.kind = "section"
            /\ last.op \in {"SectionHeaderPack", "SectionHeaderUnpack"})
        => /\ Len(data) = get_section_header_size(OfClass(rec.class))
           /\ Len(data) = CanonicalSize("section", rec.class)
           /\ last.r.ok => pos = Len(data)

\* A big-endian ELF32 file header of 0x34 bytes was written and decoded,
\* the cursor ending 0x34 bytes on.
C15_Witness ==
    /\ rec.kind = "header" /\ rec.header.ident.class = "ELF32"
    /\ rec.header.ident.endianness = "Big"
    /\ last.op = "HeaderUnpack" /\ last.r.ok /\ last.pre = 52
    /\ Len(data) = 52 /\ pos = 52

====
